---------------------------- MODULE Spec2Model ----------------------------
(***************************************************************************)
(* A model of dok (src/dok.c): the line classifier, the signature          *)
(* extractor, the source scanner, the documentation store (save / load)    *)
(* and the edit flow.                                                      *)
(*                                                                         *)
(* A C string is modelled as the sequence of its characters (one-character *)
(* strings) up to, and without, the terminating NUL.  A text file is the   *)
(* sequence of its physical lines, each without its newline.               *)
(***************************************************************************)
EXTENDS Integers, Sequences, FiniteSets, TLC

(***************************************************************************)
(* Program constants (src/dok.c:12-16).                                    *)
(***************************************************************************)
MAX_LINE_LENGTH == 1024
MAX_ITEMS == 100
MAX_NAME_LENGTH == 128
MAX_CONTENT_LENGTH == 512
MAX_PATH_LENGTH == 256

(***************************************************************************)
(* Bounds of the model.                                                    *)
(***************************************************************************)
\* longest body of a probe line (after its prefix)
MaxBody == 3
\* number of edits in one run of the program
MaxEdits == 2
\* the longest file of the source view, in lines
MaxSourceLines == 4
\* number of export files written in one run of the program
MaxExports == 1
\* number of edits in one run of the navigation loop
MaxNavEdits == 1
\* number of functions of an exported file
MaxExportFunctions == 3
\* number of export files that exist at once in the export probe
MaxProbeExports == 2

VARIABLES
    \* the program: docs.files, docs.file_count, .project_docs.txt, ...
    files, file_count, store, pc, last_save, screen, edits,
    \* the environment: the directory entries that cannot be opened for reading,
    \* and those deleted from the directory since the program started
    unreadable, removed,
    \* the probe of the pure line functions
    p_line, p_file, p_pc, p_out,
    \* the source view: a file, its scan, and the source shown for a function
    v_file, v_lines, v_pc, v_out,
    \* navigation: docs.state, docs.current_selection, docs.current_file,
    \* docs.current_function, docs.search_term, docs.search_results,
    \* docs.undocumented_functions
    state, current_selection, current_file, current_function,
    search_term, search_results, undocumented_functions,
    \* the terminal: its settings, the settings it had when the program started,
    \* orig_termios, whether atexit holds disable_raw_mode, and the settings
    \* under which the prompts of get_string_input have run
    termios, start_termios, orig_termios, at_exit, prompt_modes,
    \* the export files written, by path, and the file given to the export probe
    exports, x_file

prog_vars == <<files, file_count, store, pc, last_save, screen, edits, unreadable,
              removed>>
probe_vars == <<p_line, p_file, p_pc, p_out>>
view_vars == <<v_file, v_lines, v_pc, v_out>>
nav_vars == <<state, current_selection, current_file, current_function,
              search_term, search_results, undocumented_functions>>
tty_vars == <<termios, start_termios, orig_termios, at_exit, prompt_modes>>
export_vars == <<exports, x_file>>
ui_vars == <<nav_vars, tty_vars, export_vars>>
vars == <<files, file_count, store, pc, last_save, screen, edits, unreadable, removed,
          p_line, p_file, p_pc, p_out, v_file, v_lines, v_pc, v_out,
          state, current_selection, current_file, current_function,
          search_term, search_results, undocumented_functions,
          termios, start_termios, orig_termios, at_exit, prompt_modes,
          exports, x_file>>

---------------------------------------------------------------------------
(***************************************************************************)
(* <ctype.h> and <string.h> on character sequences.                        *)
(***************************************************************************)
Letters ==
    {"a","b","c","d","e","f","g","h","i","j","k","l","m","n","o","p","q","r","s","t","u","v","w","x","y","z",
     "A","B","C","D","E","F","G","H","I","J","K","L","M","N","O","P","Q","R","S","T","U","V","W","X","Y","Z"}

Digits == {"0","1","2","3","4","5","6","7","8","9"}

\* isspace() in the C locale (the vertical tab cannot be written in a TLA+ string)
isspace(c) == c \in {" ", "\t", "\n", "\r", "\f"}

\* isalnum()
isalnum(c) == c \in Letters \cup Digits

\* the test of the backward scans: isalnum(c) || c == '_'
IsIdentChar(c) == isalnum(c) \/ c = "_"

Take(s, n) == IF Len(s) <= n THEN s ELSE SubSeq(s, 1, n)

Drop(s, n) == IF Len(s) <= n THEN <<>> ELSE SubSeq(s, n + 1, Len(s))

\* strncmp(s, p, strlen(p)) == 0, and also strstr(s, p) == s
StartsWith(s, p) == Len(s) >= Len(p) /\ SubSeq(s, 1, Len(p)) = p

EndsWith(s, p) == Len(s) >= Len(p) /\ SubSeq(s, Len(s) - Len(p) + 1, Len(s)) = p

\* strchr(s, c): the index of the first c in s, 0 when there is none
strchr(s, c) ==
    LET at == {i \in 1..Len(s) : s[i] = c}
    IN  IF at = {} THEN 0 ELSE CHOOSE i \in at : \A j \in at : i <= j

\* `then`, evaluated after `first`: TLC evaluates a definition when it is first
\* needed, and a long chain of pending steps would be evaluated nested
After(first, then) == IF first = first THEN then ELSE then

\* strncpy(dst, src, n - 1); dst[n - 1] = '\0'
strncpy(src, n) == Take(src, n - 1)

(***************************************************************************)
(* trim_whitespace (src/dok.c:111-122).  The leading loop advances only    *)
(* the local pointer: nothing is removed at the front of the caller's      *)
(* buffer.  A string with no non-blank character is returned as it is;     *)
(* otherwise the buffer is cut after its last non-blank character.         *)
(***************************************************************************)
\* while (isspace(*str)) str++;  the index the local pointer stops at,
\* Len(str) + 1 when it stops at the terminating NUL
skip_space(str) ==
    IF \A i \in 1..Len(str) : isspace(str[i]) THEN Len(str) + 1
    ELSE CHOOSE i \in 1..Len(str) : ~isspace(str[i]) /\ \A j \in 1..(i - 1) : isspace(str[j])

\* end = str + strlen(str) - 1; while (end > str && isspace(*end)) end--;
\* str[start] is not blank, so the loop stops at the last non-blank character
skip_space_back(str, start) ==
    LET n == Len(str)
        k == CHOOSE k \in 0..(n - start) :
                 ~isspace(str[n - k]) /\ \A m \in 0..(k - 1) : isspace(str[n - m])
    IN  n - k

trim_whitespace(str) ==
    LET start == skip_space(str)
    IN  IF start > Len(str) THEN str
        ELSE SubSeq(str, 1, skip_space_back(str, start))

\* is_c_file (src/dok.c:124-128)
is_c_file(filename) ==
    \/ Len(filename) > 2 /\ EndsWith(filename, <<".","c">>)
    \/ Len(filename) > 2 /\ EndsWith(filename, <<".","h">>)

(***************************************************************************)
(* The backward scan shared by the two extractors:                         *)
(*     while (p > s && (isalnum(p[0]) || p[0] == '_')) p--;                *)
(* on 1-based indices: s is index 1, so p > s is i > 1.                    *)
(***************************************************************************)
RECURSIVE ScanBack(_, _)
ScanBack(s, i) ==
    IF i > 1 /\ IsIdentChar(s[i]) THEN ScanBack(s, i - 1) ELSE i

(***************************************************************************)
(* extract_return_type (src/dok.c:131-165).                                *)
(***************************************************************************)
extract_return_type(signature) ==
    LET temp == strncpy(signature, MAX_NAME_LENGTH)
        paren == strchr(temp, "(")
    IN  IF paren = 0 THEN <<"v","o","i","d">>
        ELSE LET name_end == ScanBack(temp, paren - 1)
             IN  IF name_end <= 1 THEN <<"v","o","i","d">>
                 ELSE LET cut == trim_whitespace(SubSeq(temp, 1, name_end - 1))
                      IN  IF Len(cut) = 0 THEN <<"i","n","t">>
                          ELSE strncpy(cut, MAX_NAME_LENGTH)

(***************************************************************************)
(* extract_function_name (src/dok.c:168-190): [ok, name].                  *)
(***************************************************************************)
extract_function_name(signature) ==
    LET paren == strchr(signature, "(")
    IN  IF paren = 0 THEN [ok |-> FALSE, name |-> <<>>]
        ELSE LET start == ScanBack(signature, paren - 1) + 1
             IN  IF start >= paren THEN [ok |-> FALSE, name |-> <<>>]
                 ELSE LET len == IF paren - start >= MAX_NAME_LENGTH
                                 THEN MAX_NAME_LENGTH - 1 ELSE paren - start
                          name == SubSeq(signature, start, start + len - 1)
                      IN  [ok |-> Len(name) > 0, name |-> name]

(***************************************************************************)
(* is_function_line (src/dok.c:192-228).                                   *)
(***************************************************************************)
\* is_function_line without the test of the last character of a .c line
is_function_line_accepts_declarations(line, filename) ==
    IF StartsWith(line, <<"/","/">>) THEN FALSE
    ELSE IF StartsWith(line, <<"/","*">>) THEN FALSE
    ELSE IF StartsWith(line, <<"#">>) THEN FALSE
    ELSE IF StartsWith(line, <<"t","y","p","e","d","e","f">>) THEN FALSE
    ELSE IF StartsWith(line, <<"s","t","r","u","c","t">>) THEN FALSE
    ELSE IF StartsWith(line, <<"e","n","u","m">>) THEN FALSE
    ELSE IF StartsWith(line, <<"u","n","i","o","n">>) THEN FALSE
    ELSE IF strchr(line, "(") = 0 \/ strchr(line, ")") = 0 THEN FALSE
    ELSE IF line[1] = " " \/ line[1] = "\t" THEN FALSE
    ELSE Len(trim_whitespace(line)) > 0

is_function_line(line, filename) ==
    IF StartsWith(line, <<"/","/">>) THEN FALSE
    ELSE IF StartsWith(line, <<"/","*">>) THEN FALSE
    ELSE IF StartsWith(line, <<"#">>) THEN FALSE
    ELSE IF StartsWith(line, <<"t","y","p","e","d","e","f">>) THEN FALSE
    ELSE IF StartsWith(line, <<"s","t","r","u","c","t">>) THEN FALSE
    ELSE IF StartsWith(line, <<"e","n","u","m">>) THEN FALSE
    ELSE IF StartsWith(line, <<"u","n","i","o","n">>) THEN FALSE
    ELSE IF strchr(line, "(") = 0 \/ strchr(line, ")") = 0 THEN FALSE
    ELSE IF line[1] = " " \/ line[1] = "\t" THEN FALSE
    ELSE LET trimmed == trim_whitespace(line)
             is_header == Len(filename) > 2 /\ EndsWith(filename, <<".","h">>)
         IN  IF is_header
             THEN Len(trimmed) > 0
             ELSE Len(trimmed) > 0 /\ trimmed[Len(trimmed)] # ";"

(***************************************************************************)
(* fgets(line, size, f) on one physical line (its newline included): the   *)
(* reads it takes, each of at most size - 1 characters.                    *)
(***************************************************************************)
RECURSIVE fgets_reads(_, _)
fgets_reads(text, size) ==
    IF Len(text) <= size - 1 THEN <<text>>
    ELSE <<SubSeq(text, 1, size - 1)>> \o fgets_reads(Drop(text, size - 1), size)

\* every read fgets takes on lines lo .. hi of a file, in order (the range is
\* halved to keep the evaluation shallow)
RECURSIVE reads_of_lines(_, _, _, _)
reads_of_lines(lines, lo, hi, size) ==
    IF lo > hi THEN <<>>
    ELSE IF lo = hi THEN fgets_reads(Append(lines[lo], "\n"), size)
    ELSE LET mid == (lo + hi) \div 2
         IN  reads_of_lines(lines, lo, mid, size) \o reads_of_lines(lines, mid + 1, hi, size)

file_reads(lines, size) == reads_of_lines(lines, 1, Len(lines), size)

---------------------------------------------------------------------------
(***************************************************************************)
(* The working directory: readdir's entries in iteration order, and the    *)
(* physical lines of each entry.                                           *)
(***************************************************************************)
File_a_c == <<"a",".","c">>
File_e_c == <<"e",".","c">>
File_b_h == <<"b",".","h">>
File_notes == <<"n","o","t","e","s",".","t","x","t">>

Dir == <<File_a_c, File_e_c, File_notes, File_b_h>>

SourceLines(entry) ==
    CASE entry = File_a_c ->
           << \* // add(a, b)
              <<"/","/"," ","a","d","d","(","a",","," ","b",")">>,
              \* int sub(int a, int b);
              <<"i","n","t"," ","s","u","b","(","i","n","t"," ","a",","," ","i","n","t"," ","b",")",";">>,
              \* int add(int a, int b)
              <<"i","n","t"," ","a","d","d","(","i","n","t"," ","a",","," ","i","n","t"," ","b",")">>,
              <<"{">>,
              \*     return sum(a, b);
              <<" "," "," "," ","r","e","t","u","r","n"," ","s","u","m","(","a",","," ","b",")",";">>,
              <<"}">>,
              \* void run(void)
              <<"v","o","i","d"," ","r","u","n","(","v","o","i","d",")">>,
              <<"{">>,
              \*     add(1, 2);
              <<" "," "," "," ","a","d","d","(","1",","," ","2",")",";">>,
              <<"}">> >>
      [] entry = File_e_c ->
           << \* // nothing here()
              <<"/","/"," ","n","o","t","h","i","n","g"," ","h","e","r","e","(",")">>,
              \* #define N(x) x
              <<"#","d","e","f","i","n","e"," ","N","(","x",")"," ","x">> >>
      [] entry = File_notes ->
           << \* int bad(void)
              <<"i","n","t"," ","b","a","d","(","v","o","i","d",")">> >>
      [] entry = File_b_h ->
           << \* int foo(int x);
              <<"i","n","t"," ","f","o","o","(","i","n","t"," ","x",")",";">> >>
      [] OTHER -> <<>>

(***************************************************************************)
(* function_t and source_file_t (src/dok.c:40-62).  A slot of docs.files   *)
(* keeps what was last written to it: only functions[0 .. function_count)  *)
(* can be read, so the slot holds exactly those.                           *)
(***************************************************************************)
NewFunction(name, signature, filename, line_number, return_type) ==
    [name |-> name, signature |-> signature, filename |-> filename,
     line_number |-> line_number, description |-> <<>>, parameters |-> <<>>,
     return_value |-> <<>>, example |-> <<>>, notes |-> <<>>,
     is_documented |-> FALSE, return_type |-> return_type]

ZeroFile == [filename |-> <<>>, full_path |-> <<>>, functions |-> <<>>]

\* the slots of docs.files a scan of Dir can touch (MAX_ITEMS is larger)
NumSlots == Len(Dir)

(***************************************************************************)
(* parse_c_file (src/dok.c:230-275) on the slot `file`.  parse_read is one *)
(* turn of its loop, on read number k of fgets, which gets line number k;  *)
(* once function_count has reached MAX_ITEMS the loop has ended.           *)
(* parse_reads runs the turns lo .. hi in order (the range is halved to    *)
(* keep the evaluation shallow).                                           *)
(***************************************************************************)
parse_read(functions, reads, k, filepath, owner) ==
    IF Len(functions) >= MAX_ITEMS THEN functions
    ELSE LET line == trim_whitespace(reads[k])
             found == extract_function_name(line)
         IN  IF is_function_line(line, filepath) /\ found.ok
             THEN Append(functions,
                         NewFunction(found.name,
                                     strncpy(line, MAX_NAME_LENGTH),
                                     strncpy(owner, MAX_PATH_LENGTH),
                                     k,
                                     extract_return_type(line)))
             ELSE functions

RECURSIVE parse_reads(_, _, _, _, _, _)
parse_reads(functions, reads, lo, hi, filepath, owner) ==
    IF lo > hi THEN functions
    ELSE IF lo = hi THEN parse_read(functions, reads, lo, filepath, owner)
    ELSE LET mid == (lo + hi) \div 2
             half == parse_reads(functions, reads, lo, mid, filepath, owner)
         IN  After(half, parse_reads(half, reads, mid + 1, hi, filepath, owner))

\* f: what fopen(filepath, "r") gives, [ok, lines]
parse_c_file(filepath, file, f) ==
    IF ~f.ok THEN file
    ELSE LET reads == file_reads(f.lines, MAX_LINE_LENGTH)
         IN  [file EXCEPT !.functions =
                  parse_reads(<<>>, reads, 1, Len(reads), filepath, file.filename)]

\* fopen(entry, "r") in the working directory: NULL for an entry that cannot be read
fopen_source(entry) == [ok |-> entry \notin unreadable, lines |-> SourceLines(entry)]

(***************************************************************************)
(* scan_project_files (src/dok.c:277-301): [files, file_count].            *)
(***************************************************************************)
RECURSIVE scan_entries(_, _, _)
scan_entries(entries, fs, count) ==
    IF entries = <<>> \/ count >= MAX_ITEMS THEN [files |-> fs, file_count |-> count]
    ELSE LET entry == Head(entries)
         IN  IF is_c_file(entry)
             THEN LET named == [fs[count + 1] EXCEPT
                                   !.filename = strncpy(entry, MAX_PATH_LENGTH),
                                   !.full_path = strncpy(entry, MAX_PATH_LENGTH)]
                      parsed == parse_c_file(entry, named, fopen_source(entry))
                  IN  scan_entries(Tail(entries),
                                   [fs EXCEPT ![count + 1] = parsed],
                                   IF Len(parsed.functions) > 0 THEN count + 1 ELSE count)
             ELSE scan_entries(Tail(entries), fs, count)

\* the entries readdir returns: those of the directory that are still there
readdir == SelectSeq(Dir, LAMBDA entry : entry \notin removed)

scan_project_files(fs) == scan_entries(readdir, fs, 0)

---------------------------------------------------------------------------
(***************************************************************************)
(* The documentation store, .project_docs.txt: whether the file exists,    *)
(* and its lines.                                                          *)
(***************************************************************************)
NoFile == [exists |-> FALSE, lines |-> <<>>]

StoreFile(lines) == [exists |-> TRUE, lines |-> lines]

KeyFunction == <<"F","U","N","C","T","I","O","N",":"," ">>
KeyFile == <<"F","I","L","E",":"," ">>
KeyLine == <<"L","I","N","E",":"," ">>
KeySignature == <<"S","I","G","N","A","T","U","R","E",":"," ">>
KeyDescription == <<"D","E","S","C","R","I","P","T","I","O","N",":"," ">>
KeyParameters == <<"P","A","R","A","M","E","T","E","R","S",":"," ">>
KeyReturn == <<"R","E","T","U","R","N",":"," ">>
KeyExample == <<"E","X","A","M","P","L","E",":"," ">>
KeyNotes == <<"N","O","T","E","S",":"," ">>
Separator == <<"-","-","-">>

\* printf's %d for a line number
RECURSIVE Decimal(_)
Decimal(n) ==
    LET digit == <<"0","1","2","3","4","5","6","7","8","9">>[(n % 10) + 1]
    IN  IF n < 10 THEN <<digit>> ELSE Append(Decimal(n \div 10), digit)

\* the three lines written before the blocks (src/dok.c:308-309)
StoreHeader ==
    << \* # Project Documentation
       <<"#"," ","P","r","o","j","e","c","t"," ","D","o","c","u","m","e","n","t","a","t","i","o","n">>,
       \* # Auto-generated - do not edit the function signatures
       <<"#"," ","A","u","t","o","-","g","e","n","e","r","a","t","e","d"," ","-"," ","d","o"," ",
         "n","o","t"," ","e","d","i","t"," ","t","h","e"," ","f","u","n","c","t","i","o","n"," ",
         "s","i","g","n","a","t","u","r","e","s">>,
       <<>> >>

\* the ten lines written for one function (src/dok.c:316-325)
StoreBlock(func) ==
    << KeyFunction \o func.name,
       KeyFile \o func.filename,
       KeyLine \o Decimal(func.line_number),
       KeySignature \o func.signature,
       KeyDescription \o func.description,
       KeyParameters \o func.parameters,
       KeyReturn \o func.return_value,
       KeyExample \o func.example,
       KeyNotes \o func.notes,
       Separator >>

\* the functions of the catalog in the order of the two loops of save_documentation
RECURSIVE functions_of(_, _, _)
functions_of(fs, count, i) ==
    IF i > count THEN <<>> ELSE fs[i].functions \o functions_of(fs, count, i + 1)

CatalogFunctions(fs, count) == functions_of(fs, count, 1)

RECURSIVE write_blocks(_)
write_blocks(funcs) ==
    IF funcs = <<>> THEN <<>>
    ELSE (IF Head(funcs).is_documented THEN StoreBlock(Head(funcs)) ELSE <<>>)
         \o write_blocks(Tail(funcs))

(***************************************************************************)
(* save_documentation (src/dok.c:304-331): the store after the call.       *)
(* fopen(DOCS_FILE, "w") truncates; when it fails nothing is written.      *)
(***************************************************************************)
\* save_documentation with the file opened for appending
save_documentation_append(fs, count, old, writable) ==
    IF ~writable THEN old
    ELSE StoreFile(old.lines \o StoreHeader \o write_blocks(CatalogFunctions(fs, count)))

save_documentation(fs, count, old, writable) ==
    IF ~writable THEN old
    ELSE StoreFile(StoreHeader \o write_blocks(CatalogFunctions(fs, count)))

(***************************************************************************)
(* load_documentation (src/dok.c:333-391).  The state of its loop is the   *)
(* catalog and the two current-key buffers; load_line is one turn of it.   *)
(***************************************************************************)
\* the (file index, function index) the two search loops stop at, or <<0, 0>>
find_function(fs, count, func_name, filename) ==
    IF \E i \in 1..count : fs[i].filename = filename
    THEN LET i == CHOOSE i \in 1..count :
                      fs[i].filename = filename /\ \A k \in 1..(i - 1) : fs[k].filename # filename
             fns == fs[i].functions
         IN  IF \E j \in 1..Len(fns) : fns[j].name = func_name
             THEN <<i, CHOOSE j \in 1..Len(fns) :
                          fns[j].name = func_name /\ \A k \in 1..(j - 1) : fns[k].name # func_name>>
             ELSE <<0, 0>>
    ELSE <<0, 0>>

\* the chain of tests on a line once the function of the current keys is found
apply_line(st, i, j, line) ==
    IF StartsWith(line, KeyDescription)
    THEN [st EXCEPT !.files[i].functions[j].description =
                        strncpy(Drop(line, 13), MAX_CONTENT_LENGTH),
                    !.files[i].functions[j].is_documented = TRUE]
    ELSE IF StartsWith(line, KeyParameters)
    THEN [st EXCEPT !.files[i].functions[j].parameters =
                        strncpy(Drop(line, 12), MAX_CONTENT_LENGTH)]
    ELSE IF StartsWith(line, KeyReturn)
    THEN [st EXCEPT !.files[i].functions[j].return_value =
                        strncpy(Drop(line, 8), MAX_CONTENT_LENGTH)]
    ELSE IF StartsWith(line, KeyExample)
    THEN [st EXCEPT !.files[i].functions[j].example =
                        strncpy(Drop(line, 9), MAX_CONTENT_LENGTH)]
    ELSE IF StartsWith(line, KeyNotes)
    THEN [st EXCEPT !.files[i].functions[j].notes =
                        strncpy(Drop(line, 7), MAX_CONTENT_LENGTH)]
    ELSE IF line = Separator
    THEN [st EXCEPT !.current_func_name = <<>>, !.current_filename = <<>>]
    ELSE st

\* load_line adding a function to the first file for a description that matches none
load_line_creates_entry(st, count, read) ==
    LET line == trim_whitespace(read)
    IN  IF StartsWith(line, KeyFunction)
        THEN [st EXCEPT !.current_func_name = strncpy(Drop(line, 10), MAX_NAME_LENGTH)]
        ELSE IF StartsWith(line, KeyFile)
        THEN [st EXCEPT !.current_filename = strncpy(Drop(line, 6), MAX_PATH_LENGTH)]
        ELSE IF Len(st.current_func_name) > 0 /\ Len(st.current_filename) > 0
        THEN LET at == find_function(st.files, count, st.current_func_name, st.current_filename)
             IN  IF at[1] = 0
                 THEN IF StartsWith(line, KeyDescription)
                      THEN [st EXCEPT !.files[1].functions =
                                          Append(@, NewFunction(st.current_func_name, <<>>,
                                                                st.current_filename, 0, <<>>))]
                      ELSE st
                 ELSE apply_line(st, at[1], at[2], line)
        ELSE st

load_line(st, count, read) ==
    LET line == trim_whitespace(read)
    IN  IF StartsWith(line, KeyFunction)
        THEN [st EXCEPT !.current_func_name = strncpy(Drop(line, 10), MAX_NAME_LENGTH)]
        ELSE IF StartsWith(line, KeyFile)
        THEN [st EXCEPT !.current_filename = strncpy(Drop(line, 6), MAX_PATH_LENGTH)]
        ELSE IF Len(st.current_func_name) > 0 /\ Len(st.current_filename) > 0
        THEN LET at == find_function(st.files, count, st.current_func_name, st.current_filename)
             IN  IF at[1] = 0 THEN st ELSE apply_line(st, at[1], at[2], line)
        ELSE st

\* the turns lo .. hi of the loop, in order (the range is halved to keep the
\* evaluation shallow)
RECURSIVE load_reads(_, _, _, _, _)
load_reads(st, count, reads, lo, hi) ==
    IF lo > hi THEN st
    ELSE IF lo = hi THEN load_line(st, count, reads[lo])
    ELSE LET mid == (lo + hi) \div 2
             half == load_reads(st, count, reads, lo, mid)
         IN  After(half, load_reads(half, count, reads, mid + 1, hi))

load_state(fs, count, file) ==
    LET reads == file_reads(file.lines, MAX_LINE_LENGTH)
    IN  load_reads([files |-> fs, current_func_name |-> <<>>, current_filename |-> <<>>],
                   count, reads, 1, Len(reads))

load_documentation(fs, count, file) ==
    IF ~file.exists THEN fs ELSE load_state(fs, count, file).files

---------------------------------------------------------------------------
(***************************************************************************)
(* The edit flow.  What the user types is a sequence of lines on stdin;    *)
(* get_string_input (src/dok.c:1117-1128) takes one read of fgets with the *)
(* size of the field buffer and cuts it at its newline.                    *)
(***************************************************************************)
get_string_input(buffer, reads) ==
    IF reads = <<>> THEN buffer
    ELSE LET text == Head(reads)
             newline == strchr(text, "\n")
         IN  IF newline = 0 THEN text ELSE SubSeq(text, 1, newline - 1)

\* if (strlen(temp_buffer) > 0) strncpy(field, temp_buffer, MAX_CONTENT_LENGTH - 1)
edit_field(field, temp_buffer) ==
    IF Len(temp_buffer) > 0 THEN strncpy(temp_buffer, MAX_CONTENT_LENGTH) ELSE field

(***************************************************************************)
(* edit_function_documentation (src/dok.c:1130-1184), up to the save: the  *)
(* function after the five prompts.  `typed` holds a line for each prompt, *)
(* so no prompt meets the end of stdin.                                    *)
(***************************************************************************)
edit_function_documentation(func, typed) ==
    LET reads == file_reads(typed, MAX_CONTENT_LENGTH)
        b1 == get_string_input(<<>>, reads)
        b2 == get_string_input(b1, Drop(reads, 1))
        b3 == get_string_input(b2, Drop(reads, 2))
        b4 == get_string_input(b3, Drop(reads, 3))
        b5 == get_string_input(b4, Drop(reads, 4))
    IN  [func EXCEPT !.description = edit_field(func.description, b1),
                     !.parameters = edit_field(func.parameters, b2),
                     !.return_value = edit_field(func.return_value, b3),
                     !.example = edit_field(func.example, b4),
                     !.notes = edit_field(func.notes, b5),
                     !.is_documented = TRUE]

\* what the user types at the five prompts
TextHello == <<"h","e","l","l","o">>
TextHelloSpace == <<"h","e","l","l","o"," ">>
TextCount == <<"c","o","u","n","t">>
TextAnInt == <<"a","n"," ","i","n","t">>
TextCall == <<"a","d","d","(","1",","," ","2",")">>
TextSeeRun == <<" ","s","e","e"," ","r","u","n">>
TextOld == <<"o","l","d"," ","t","e","x","t">>

TypedInputs ==
    { << <<>>, <<>>, <<>>, <<>>, <<>> >>,
      << TextHello, <<>>, <<>>, <<>>, <<>> >>,
      << TextHelloSpace, <<>>, <<>>, <<>>, <<>> >>,
      << <<>>, TextCount, <<>>, <<>>, <<>> >>,
      << <<>>, <<>>, TextAnInt, <<>>, TextSeeRun >>,
      << TextHello, TextCount, TextAnInt, TextCall, TextSeeRun >> }

(***************************************************************************)
(* The stores the program may find at startup: none, or one written by an  *)
(* earlier run over sources that have changed since.                       *)
(***************************************************************************)
Documented(func, description, parameters) ==
    [func EXCEPT !.description = description, !.parameters = parameters,
                 !.is_documented = TRUE]

FuncGone ==
    NewFunction(<<"g","o","n","e">>,
                <<"i","n","t"," ","g","o","n","e","(","v","o","i","d",")">>,
                File_a_c, 12, <<"i","n","t">>)

FuncAddElsewhere ==
    NewFunction(<<"a","d","d">>,
                <<"i","n","t"," ","a","d","d","(","i","n","t"," ","a",","," ","i","n","t"," ","b",")">>,
                <<"z",".","c">>, 3, <<"i","n","t">>)

FuncAddBefore ==
    NewFunction(<<"a","d","d">>,
                <<"i","n","t"," ","a","d","d","(","i","n","t"," ","a",","," ","i","n","t"," ","b",")">>,
                File_a_c, 1, <<"i","n","t">>)

StaleStore ==
    StoreFile(StoreHeader
              \o StoreBlock(Documented(FuncGone, TextOld, TextCount))
              \o StoreBlock(Documented(FuncAddElsewhere, TextOld, <<>>)))

PriorStore ==
    StoreFile(StoreHeader
              \o StoreBlock(Documented(FuncGone, TextOld, <<>>))
              \o StoreBlock(Documented(FuncAddBefore, TextOld, TextCount)))

\* the directory entries that fopen cannot open while the program runs
UnreadableSets == SUBSET {File_a_c, File_b_h}

InitStores == {NoFile, StaleStore, PriorStore}

---------------------------------------------------------------------------
(***************************************************************************)
(* The program.  pc: "start" before main's scan, "loop" while the main     *)
(* loop waits in handle_input, "exited" after exit.                        *)
(***************************************************************************)
NoProbe == [op |-> "none"]

ProbeIdle ==
    /\ p_line = <<>>
    /\ p_file = <<>>
    /\ p_pc = "off"
    /\ p_out = NoProbe

\* main (src/dok.c:1364-1368) and the zeroed static docs: navigation before
\* the first key
NavStart ==
    /\ state = "STATE_FILES"
    /\ current_selection = 0
    /\ current_file = 0
    /\ current_function = 0
    /\ search_term = <<>>
    /\ search_results = <<>>
    /\ undocumented_functions = <<>>

\* the zeroed static orig_termios (src/dok.c:80)
ZeroTermios == [ECHO |-> FALSE, ICANON |-> FALSE]

\* the settings of a terminal in its usual line-buffered, echoing mode
CookedTermios == [ECHO |-> TRUE, ICANON |-> TRUE]

\* the terminal before enable_raw_mode has run, and nothing exported
UiStart ==
    /\ NavStart
    /\ termios = start_termios
    /\ orig_termios = ZeroTermios
    /\ at_exit = FALSE
    /\ prompt_modes = {}
    /\ exports = {}
    /\ x_file = ZeroFile

UiIdle == start_termios = CookedTermios /\ UiStart

ViewIdle ==
    /\ v_file = <<>>
    /\ v_lines = <<>>
    /\ v_pc = "off"
    /\ v_out = NoProbe

Init ==
    /\ files = [i \in 1..NumSlots |-> ZeroFile]
    /\ file_count = 0
    /\ store \in InitStores
    /\ unreadable \in UnreadableSets
    /\ removed = {}
    /\ pc = "start"
    /\ last_save = "none"
    /\ screen = {}
    /\ edits = 0
    /\ ProbeIdle
    /\ ViewIdle
    /\ UiIdle

\* main (src/dok.c:1362-1390): the scan, the load, and the exit when nothing was found
Startup ==
    /\ pc = "start"
    /\ LET scanned == scan_project_files(files)
       IN  /\ files' = load_documentation(scanned.files, scanned.file_count, store)
           /\ file_count' = scanned.file_count
           /\ pc' = IF scanned.file_count = 0 THEN "exited" ELSE "loop"
           /\ screen' = IF scanned.file_count = 0
                        THEN {"No C files found in current directory."}
                        ELSE {}
    /\ UNCHANGED <<store, unreadable, removed, last_save, edits>>
    /\ UNCHANGED <<probe_vars, view_vars, ui_vars>>

\* handle_input, 'r' (src/dok.c:1201-1205)
Rescan ==
    /\ pc = "loop"
    /\ LET scanned == scan_project_files(files)
       IN  /\ files' = load_documentation(scanned.files, scanned.file_count, store)
           /\ file_count' = scanned.file_count
    /\ screen' = {"Rescanning project files..."}
    /\ UNCHANGED <<store, unreadable, removed, pc, last_save, edits>>
    /\ UNCHANGED <<probe_vars, view_vars, ui_vars>>

\* handle_input, 'e' or the selection of an undocumented function: the edit,
\* the save and the message (src/dok.c:1130-1190).  can_write: whether
\* fopen(DOCS_FILE, "w") succeeds in save_documentation.
Edit(i, j, typed, can_write) ==
    /\ pc = "loop"
    /\ edits < MaxEdits
    /\ LET edited == [files EXCEPT ![i].functions[j] =
                          edit_function_documentation(files[i].functions[j], typed)]
       IN  /\ files' = edited
           /\ store' = save_documentation(edited, file_count, store, can_write)
    /\ last_save' = IF can_write THEN "written" ELSE "open failed"
    /\ screen' = {"Documentation saved!"}
    /\ edits' = edits + 1
    /\ UNCHANGED <<file_count, unreadable, removed, pc>>
    /\ UNCHANGED <<probe_vars, view_vars, ui_vars>>

\* handle_input, 'q' in the file list (src/dok.c:1198-1199)
Quit ==
    /\ pc = "loop"
    /\ pc' = "exited"
    /\ UNCHANGED <<files, file_count, store, unreadable, removed, last_save, screen, edits>>
    /\ UNCHANGED <<probe_vars, view_vars, ui_vars>>

Next ==
    \/ Startup
    \/ Rescan
    \/ \E i \in 1..file_count : \E j \in 1..Len(files[i].functions) :
           \E typed \in TypedInputs : \E can_write \in BOOLEAN : Edit(i, j, typed, can_write)
    \/ Quit

Spec == Init /\ [][Next]_vars

---------------------------------------------------------------------------
(***************************************************************************)
(* The probe: the line classifier, the name extractor and the scanner      *)
(* applied to one line of one file.  The lines are a prefix followed by a  *)
(* body of at most MaxBody characters, and one line longer than the read   *)
(* buffer of the scanner.                                                  *)
(***************************************************************************)
ProbePrefixes ==
    { <<>>, <<"/","/">>, <<"/","*">>, <<"#">>,
      <<"t","y","p","e","d","e","f">>, <<"s","t","r","u","c","t">>,
      <<"e","n","u","m">>, <<"u","n","i","o","n">>, <<" ">>, <<"\t">> }

ProbeChars == {"a", "(", ")", ";", " "}

ProbeBodies == UNION {[1..n -> ProbeChars] : n \in 0..MaxBody}

\* a comment of MAX_LINE_LENGTH - 1 characters followed by: int f(x)
LongCommentLine ==
    <<"/","/">> \o [i \in 1..(MAX_LINE_LENGTH - 3) |-> " "]
               \o <<"i","n","t"," ","f","(","x",")">>

\* signatures as they are written in C sources
SignatureLines ==
    { <<"i","n","t"," ","a","d","d","(","i","n","t"," ","a",","," ","i","n","t"," ","b",")">>,
      <<"v","o","i","d"," ","r","u","n","(","v","o","i","d",")">>,
      <<"c","h","a","r"," ","*","g","e","t","_","n","a","m","e","(",
        "c","o","n","s","t"," ","c","h","a","r"," ","*","i","d",")">>,
      <<"c","h","a","r","*"," ","d","u","p","(","v","o","i","d",")">>,
      <<"m","a","i","n","(","v","o","i","d",")">>,
      <<"i","n","t"," ","f","o","o"," ","(","v","o","i","d",")">>,
      <<"i","n","t"," ","f","o","o","(","i","n","t"," ","x",")",";">> }

ProbeLines ==
    {p \o b : p \in ProbePrefixes, b \in ProbeBodies} \cup {LongCommentLine} \cup SignatureLines

ProbeFiles == {File_a_c, File_b_h}

InitLine ==
    /\ files = [i \in 1..NumSlots |-> ZeroFile]
    /\ file_count = 0
    /\ store = NoFile
    /\ unreadable = {}
    /\ removed = {}
    /\ pc = "start"
    /\ last_save = "none"
    /\ screen = {}
    /\ edits = 0
    /\ p_line \in ProbeLines
    /\ p_file \in ProbeFiles
    /\ p_pc = "input"
    /\ p_out = NoProbe
    /\ ViewIdle
    /\ UiIdle

\* is_function_line on the line as it is, and on the line after trim_whitespace
ProbeClassify ==
    /\ p_pc = "input"
    /\ p_pc' = "classified"
    /\ p_out' = [op |-> "classify",
                 raw |-> is_function_line(p_line, p_file),
                 trimmed |-> is_function_line(trim_whitespace(p_line), p_file)]
    /\ UNCHANGED <<p_line, p_file>>
    /\ UNCHANGED <<prog_vars, view_vars, ui_vars>>

\* is_function_line on a line that ends in ';', with that character removed
ProbeClassifyCut ==
    /\ p_pc = "input"
    /\ Len(p_line) > 0 /\ p_line[Len(p_line)] = ";"
    /\ p_pc' = "cut"
    /\ p_out' = [op |-> "cut",
                 whole |-> is_function_line(p_line, p_file),
                 cut |-> is_function_line(SubSeq(p_line, 1, Len(p_line) - 1), p_file)]
    /\ UNCHANGED <<p_line, p_file>>
    /\ UNCHANGED <<prog_vars, view_vars, ui_vars>>

\* parse_c_file on a file p_file whose only line is p_line
ProbeScan ==
    /\ p_pc = "input"
    /\ p_pc' = "scanned"
    /\ p_out' = [op |-> "scan",
                 functions |-> parse_c_file(p_file,
                                   [ZeroFile EXCEPT !.filename = p_file, !.full_path = p_file],
                                   [ok |-> TRUE, lines |-> <<p_line>>]).functions]
    /\ UNCHANGED <<p_line, p_file>>
    /\ UNCHANGED <<prog_vars, view_vars, ui_vars>>

\* the lines of a file that holds p_line and, below it, "void run(void)"
LinesWithRun == <<p_line, <<"v","o","i","d"," ","r","u","n","(","v","o","i","d",")">> >>

\* parse_c_file on a file p_file that holds the lines LinesWithRun
ProbeScanBelow ==
    /\ p_pc = "input"
    /\ p_pc' = "scanned below"
    /\ p_out' = [op |-> "scan below",
                 functions |-> parse_c_file(p_file,
                                   [ZeroFile EXCEPT !.filename = p_file, !.full_path = p_file],
                                   [ok |-> TRUE, lines |-> LinesWithRun]).functions]
    /\ UNCHANGED <<p_line, p_file>>
    /\ UNCHANGED <<prog_vars, view_vars, ui_vars>>

\* a function that has a value in each of its five fields
FuncWithOldText ==
    [NewFunction(<<"r","u","n">>, <<"v","o","i","d"," ","r","u","n","(","v","o","i","d",")">>,
                 File_a_c, 7, <<"v","o","i","d">>)
        EXCEPT !.description = TextOld, !.parameters = TextOld, !.return_value = TextOld,
               !.example = TextOld, !.notes = TextOld, !.is_documented = TRUE]

\* what is typed at the five prompts when p_line is typed at prompt k and
\* ENTER alone at the four others
TypedAtPrompt(k) == [n \in 1..5 |-> IF n = k THEN p_line ELSE <<>>]

\* edit_function_documentation on FuncWithOldText with p_line typed at prompt k
ProbeEdit(k) ==
    /\ p_pc = "input"
    /\ p_pc' = "edited"
    /\ p_out' = [op |-> "edit", prompt |-> k,
                 func |-> edit_function_documentation(FuncWithOldText, TypedAtPrompt(k))]
    /\ UNCHANGED <<p_line, p_file>>
    /\ UNCHANGED <<prog_vars, view_vars, ui_vars>>

\* extract_function_name and extract_return_type on the line
ProbeExtract ==
    /\ p_pc = "input"
    /\ p_pc' = "extracted"
    /\ p_out' = [op |-> "extract",
                 found |-> extract_function_name(p_line),
                 return_type |-> extract_return_type(p_line)]
    /\ UNCHANGED <<p_line, p_file>>
    /\ UNCHANGED <<prog_vars, view_vars, ui_vars>>

NextLine ==
    \/ ProbeClassify
    \/ ProbeClassifyCut
    \/ ProbeScan
    \/ ProbeScanBelow
    \/ \E k \in 1..5 : ProbeEdit(k)
    \/ ProbeExtract

SpecLine == InitLine /\ [][NextLine]_vars

---------------------------------------------------------------------------
(***************************************************************************)
(* print_function_source (src/dok.c:602-661): the numbered reads it        *)
(* prints.  source_read is one turn of its loop; `done` is the break.      *)
(***************************************************************************)
\* the loop over the characters of a read: brace_count++ / brace_count--
count_braces(line) ==
    Cardinality({i \in 1..Len(line) : line[i] = "{"})
        - Cardinality({i \in 1..Len(line) : line[i] = "}"})

\* source_read that goes on to the brace count after a header declaration
source_read_no_declaration_stop(st, line, func, is_header) ==
    IF st.done THEN st
    ELSE LET current_line == st.current_line + 1
             printed == Append(st.out, [number |-> current_line, text |-> line])
             brace_count == st.brace_count + count_braces(line)
         IN  IF current_line = func.line_number
             THEN [st EXCEPT !.current_line = current_line, !.found_function = TRUE,
                             !.in_function = TRUE, !.out = printed,
                             !.brace_count = brace_count]
             ELSE IF st.in_function
             THEN [st EXCEPT !.current_line = current_line, !.out = printed,
                             !.brace_count = brace_count,
                             !.in_function = ~(brace_count <= 0),
                             !.done = (brace_count <= 0)]
             ELSE [st EXCEPT !.current_line = current_line]

source_read(st, line, func, is_header) ==
    IF st.done THEN st
    ELSE LET current_line == st.current_line + 1
             printed == Append(st.out, [number |-> current_line, text |-> line])
             brace_count == st.brace_count + count_braces(line)
             trimmed == trim_whitespace(line)
         IN  IF current_line = func.line_number
             THEN IF is_header /\ Len(trimmed) > 0 /\ trimmed[Len(trimmed)] = ";"
                  THEN [st EXCEPT !.current_line = current_line, !.found_function = TRUE,
                                  !.in_function = TRUE, !.out = printed, !.done = TRUE]
                  ELSE [st EXCEPT !.current_line = current_line, !.found_function = TRUE,
                                  !.in_function = TRUE, !.out = printed,
                                  !.brace_count = brace_count]
             ELSE IF st.in_function
             THEN [st EXCEPT !.current_line = current_line, !.out = printed,
                             !.brace_count = brace_count,
                             !.in_function = ~(brace_count <= 0),
                             !.done = (brace_count <= 0)]
             ELSE [st EXCEPT !.current_line = current_line]

RECURSIVE source_reads(_, _, _, _, _, _)
source_reads(st, reads, lo, hi, func, is_header) ==
    IF lo > hi THEN st
    ELSE IF lo = hi THEN source_read(st, reads[lo], func, is_header)
    ELSE LET mid == (lo + hi) \div 2
             half == source_reads(st, reads, lo, mid, func, is_header)
         IN  After(half, source_reads(half, reads, mid + 1, hi, func, is_header))

\* f: what fopen(func->filename, "r") gives, [ok, lines]
print_function_source(func, f) ==
    IF ~f.ok THEN [opened |-> FALSE, found_function |-> FALSE, out |-> <<>>]
    ELSE LET reads == file_reads(f.lines, MAX_LINE_LENGTH)
             is_header == Len(func.filename) > 2 /\ EndsWith(func.filename, <<".","h">>)
             st == source_reads([current_line |-> 0, brace_count |-> 0,
                                 found_function |-> FALSE, in_function |-> FALSE,
                                 out |-> <<>>, done |-> FALSE],
                                reads, 1, Len(reads), func, is_header)
         IN  [opened |-> TRUE, found_function |-> st.found_function, out |-> st.out]

(***************************************************************************)
(* The source view: one file of at most MaxSourceLines lines is scanned,   *)
(* and the source of one of its functions is shown.                        *)
(***************************************************************************)
ViewLineSet ==
    { <<"i","n","t"," ","f","(","v","o","i","d",")">>,
      <<"i","n","t"," ","g","(","v","o","i","d",")"," ","{"," ","}">>,
      <<"i","n","t"," ","h","(","i","n","t"," ","x",")",";">>,
      <<"{">>,
      <<"}">>,
      <<"/","/"," ","c">>,
      <<" "," "," "," ","i","f"," ","(","x",")"," ","{">> }

ViewSources == UNION {[1..n -> ViewLineSet] : n \in 1..MaxSourceLines}

InitView ==
    /\ files = [i \in 1..NumSlots |-> ZeroFile]
    /\ file_count = 0
    /\ store = NoFile
    /\ unreadable = {}
    /\ removed = {}
    /\ pc = "start"
    /\ last_save = "none"
    /\ screen = {}
    /\ edits = 0
    /\ ProbeIdle
    /\ v_file \in ProbeFiles
    /\ v_lines \in ViewSources
    /\ v_pc = "input"
    /\ v_out = NoProbe
    /\ UiIdle

\* parse_c_file on the file
ViewScan ==
    /\ v_pc = "input"
    /\ v_pc' = "scanned"
    /\ v_out' = [op |-> "scan",
                 functions |-> parse_c_file(v_file,
                                   [ZeroFile EXCEPT !.filename = v_file, !.full_path = v_file],
                                   [ok |-> TRUE, lines |-> v_lines]).functions]
    /\ UNCHANGED <<v_file, v_lines>>
    /\ UNCHANGED <<prog_vars, probe_vars, ui_vars>>

\* print_function_source on function j of the scan; can_read: whether fopen succeeds
ViewSource(j, can_read) ==
    /\ v_pc = "scanned"
    /\ v_pc' = "shown"
    /\ v_out' = [op |-> "source",
                 func |-> v_out.functions[j],
                 shown |-> print_function_source(v_out.functions[j],
                                                 [ok |-> can_read, lines |-> v_lines])]
    /\ UNCHANGED <<v_file, v_lines>>
    /\ UNCHANGED <<prog_vars, probe_vars, ui_vars>>

NextView ==
    \/ ViewScan
    \/ /\ v_pc = "scanned"
       /\ \E j \in 1..Len(v_out.functions) : \E can_read \in BOOLEAN : ViewSource(j, can_read)

SpecView == InitView /\ [][NextView]_vars

---------------------------------------------------------------------------
(***************************************************************************)
(* Terminal handling (src/dok.c:80-93).                                    *)
(***************************************************************************)
\* tcsetattr(STDIN_FILENO, TCSAFLUSH, &orig_termios): the settings of the terminal
disable_raw_mode(saved) == saved

\* enable_raw_mode that saves the settings after it has changed them
enable_raw_mode_saves_raw(current) ==
    LET raw == [current EXCEPT !.ECHO = FALSE, !.ICANON = FALSE]
    IN  [orig_termios |-> raw, termios |-> raw]

\* tcgetattr into orig_termios, then raw = orig_termios without ECHO and ICANON
enable_raw_mode(current) ==
    [orig_termios |-> current,
     termios |-> [current EXCEPT !.ECHO = FALSE, !.ICANON = FALSE]]

\* the terminal across one get_string_input (src/dok.c:1118, 1127): the prompt
\* runs between disable_raw_mode and enable_raw_mode
prompt_tty(tty) ==
    LET shown == disable_raw_mode(tty.orig_termios)
        raw == enable_raw_mode(shown)
    IN  [termios |-> raw.termios, orig_termios |-> raw.orig_termios,
         at_exit |-> TRUE, prompt_modes |-> tty.prompt_modes \cup {shown}]

\* the terminal across the five prompts of edit_function_documentation
edit_tty(tty) == prompt_tty(prompt_tty(prompt_tty(prompt_tty(prompt_tty(tty)))))

Tty == [termios |-> termios, orig_termios |-> orig_termios,
        at_exit |-> at_exit, prompt_modes |-> prompt_modes]

\* exit(): the handlers of atexit run
exit_termios == IF at_exit THEN disable_raw_mode(orig_termios) ELSE termios

(***************************************************************************)
(* perform_search (src/dok.c:394-407) and find_undocumented_functions      *)
(* (src/dok.c:409-421).  Indices are those of the C arrays, from 0.        *)
(***************************************************************************)
\* strstr(s, term) != NULL
strstr(s, term) ==
    \E k \in 0..(Len(s) - Len(term)) : SubSeq(s, k + 1, k + Len(term)) = term

\* the (i, j) of the catalog in the order of the two loops
CatalogIndices(fs, count) ==
    LET RECURSIVE Upto(_)
        Upto(i) == IF i = 0 THEN <<>>
                   ELSE Upto(i - 1) \o [j \in 1..Len(fs[i].functions) |-> <<i - 1, j - 1>>]
    IN  Upto(count)

perform_search(fs, count, term) ==
    LET hits == SelectSeq(CatalogIndices(fs, count),
                          LAMBDA at : LET func == fs[at[1] + 1].functions[at[2] + 1]
                                      IN  \/ strstr(func.name, term)
                                          \/ strstr(func.description, term)
                                          \/ strstr(func.signature, term))
    IN  [k \in 1..(IF Len(hits) > MAX_ITEMS THEN MAX_ITEMS ELSE Len(hits)) |->
            hits[k][1] * 1000 + hits[k][2]]

\* the pointers are kept as the (i, j) they point at
find_undocumented_functions(fs, count) ==
    LET open == SelectSeq(CatalogIndices(fs, count),
                          LAMBDA at : ~fs[at[1] + 1].functions[at[2] + 1].is_documented)
    IN  Take(open, MAX_ITEMS)

(***************************************************************************)
(* The exports (src/dok.c:673-1051).  An export file is kept as what it    *)
(* says: the file it documents, the statistics block and the functions     *)
(* listed.                                                                 *)
(***************************************************************************)
\* strrchr(filename, '.') and the copy of what stands before it (src/dok.c:695-705)
base_name(filename) ==
    LET dots == {i \in 1..Len(filename) : filename[i] = "."}
    IN  IF dots = {} THEN strncpy(filename, MAX_PATH_LENGTH)
        ELSE SubSeq(filename, 1, (CHOOSE i \in dots : \A k \in dots : k <= i) - 1)

ExportSuffix(choice) ==
    CASE choice = "1" -> <<"_","d","o","c","s",".","t","x","t">>
      [] choice = "2" -> <<"_","d","o","c","s",".","m","d">>
      [] choice = "3" -> <<"_","d","o","c","s",".","h","t","m","l">>
      [] choice = "4" -> <<"_","d","o","c","s",".","p","s">>

\* printf("%.1f", total > 0 ? (float)documented / total * 100 : 0), in tenths of
\* a percent
coverage(documented_functions, total_functions) ==
    IF total_functions > 0
    THEN (2000 * documented_functions + total_functions) \div (2 * total_functions)
    ELSE 0

\* the statistics block of write_function_docs_text, _markdown and _html
\* (src/dok.c:869-879, 923-933, 974-985)
statistics(file) ==
    LET total_functions == Len(file.functions)
        documented_functions ==
            Cardinality({i \in 1..total_functions : file.functions[i].is_documented})
    IN  [total_functions |-> total_functions,
         documented_functions |-> documented_functions,
         coverage |-> coverage(documented_functions, total_functions)]

\* the functions write_function_docs_postscript lists before y_pos < 100
\* (src/dok.c:1027-1051)
PostScriptFunctions(file) == Take(file.functions, 6)

\* what save_as_text, save_as_markdown, save_as_html and save_as_postscript write
export_content(file, choice) ==
    IF choice = "4"
    THEN [source |-> file.filename, statistics |-> <<>>,
          functions |-> [i \in 1..Len(PostScriptFunctions(file)) |-> file.functions[i].name]]
    ELSE [source |-> file.filename, statistics |-> <<statistics(file)>>,
          functions |-> [i \in 1..Len(file.functions) |-> file.functions[i].name]]

ExportChoices == {"1", "2", "3", "4", "5"}

\* save_printable_documentation (src/dok.c:673-728): the export files after it.
\* can_create: whether fopen(filename, "w") succeeds.
save_printable_documentation(written, file, choice, can_create) ==
    IF choice \notin {"1", "2", "3", "4"} \/ ~can_create THEN written
    ELSE LET filename == base_name(file.filename) \o ExportSuffix(choice)
         IN  {e \in written : e.path # filename}
                 \cup {[path |-> filename, format |-> choice,
                        content |-> export_content(file, choice)]}

---------------------------------------------------------------------------
(***************************************************************************)
(* The navigation loop: main (src/dok.c:1362-1415) and handle_input        *)
(* (src/dok.c:1192-1360), one action for each case of its switches.        *)
(***************************************************************************)
NavStates ==
    {"STATE_FILES", "STATE_FUNCTIONS", "STATE_FUNCTION_DETAIL", "STATE_SEARCH",
     "STATE_UNDOCUMENTED"}

\* the keys typed; "ESC" stands for an arrow key, read as ESC [ A or ESC [ B
Keys == {"q", "r", "p", "P", "s", "u", "ESC", "\n", "b", "e", "v", "x"}

\* case STATE_FILES: case 'q': exit(0)  (src/dok.c:1196-1199)
exit_requested_in_any_state(st, c) == c = "q"

exit_requested(st, c) == st = "STATE_FILES" /\ c = "q"

\* the (state, key) pairs that have a case in handle_input
has_case(st, c) ==
    \/ exit_requested(st, c)
    \/ st = "STATE_FILES" /\ c \in {"r", "p", "P", "s", "u", "ESC", "\n"}
    \/ st = "STATE_FUNCTIONS" /\ c \in {"b", "ESC", "\n"}
    \/ st = "STATE_FUNCTION_DETAIL" /\ c \in {"b", "e", "v"}
    \/ st = "STATE_SEARCH" /\ c \in {"b", "ESC", "\n"}
    \/ st = "STATE_UNDOCUMENTED" /\ c \in {"b", "ESC", "\n"}

\* the length of the list the arrow keys move in
list_length ==
    CASE state = "STATE_FILES" -> file_count
      [] state = "STATE_FUNCTIONS" -> Len(files[current_file + 1].functions)
      [] state = "STATE_SEARCH" -> Len(search_results)
      [] state = "STATE_UNDOCUMENTED" -> Len(undocumented_functions)
      [] OTHER -> 0

\* what is typed at the prompts of an edit, and at the search prompt
NavTypedInputs == { << TextHello, <<>>, <<>>, <<>>, <<>> >> }

\* whether fopen(DOCS_FILE, "w") succeeds at the saves of the navigation loop
NavCanWrite == {TRUE}

SearchTerms == { <<>>, <<"i","n","t">> }

\* the formats chosen at the exports of the navigation loop
NavExportChoices == {"1", "5"}

StartTermios == {CookedTermios, [ECHO |-> FALSE, ICANON |-> TRUE]}

InitNav ==
    /\ files = [i \in 1..NumSlots |-> ZeroFile]
    /\ file_count = 0
    /\ store = NoFile
    /\ unreadable \in {{}, {File_a_c, File_b_h}}
    /\ removed = {}
    /\ pc = "start"
    /\ last_save = "none"
    /\ screen = {}
    /\ edits = 0
    /\ ProbeIdle
    /\ ViewIdle
    /\ start_termios \in StartTermios
    /\ UiStart

\* main: the scan, the load, the exit when nothing was found, enable_raw_mode
NavStartup ==
    /\ pc = "start"
    /\ LET scanned == scan_project_files(files)
           raw == enable_raw_mode(termios)
       IN  /\ files' = load_documentation(scanned.files, scanned.file_count, store)
           /\ file_count' = scanned.file_count
           /\ IF scanned.file_count = 0
              THEN /\ pc' = "exited"
                   /\ screen' = {"No C files found in current directory."}
                   /\ termios' = exit_termios
                   /\ UNCHANGED <<orig_termios, at_exit>>
              ELSE /\ pc' = "loop"
                   /\ screen' = {}
                   /\ termios' = raw.termios
                   /\ orig_termios' = raw.orig_termios
                   /\ at_exit' = TRUE
    /\ UNCHANGED <<store, unreadable, removed, last_save, edits>>
    /\ UNCHANGED <<nav_vars, start_termios, prompt_modes, export_vars>>
    /\ UNCHANGED <<probe_vars, view_vars>>

\* 'q' in the file list
KeyQuit ==
    /\ pc = "loop"
    /\ exit_requested(state, "q")
    /\ pc' = "exited"
    /\ termios' = exit_termios
    /\ UNCHANGED <<files, file_count, store, unreadable, removed, last_save, screen, edits>>
    /\ UNCHANGED <<state, current_selection, current_file, current_function,
                   search_term, search_results, undocumented_functions>>
    /\ UNCHANGED <<start_termios, orig_termios, at_exit, prompt_modes, export_vars>>
    /\ UNCHANGED <<probe_vars, view_vars>>

\* 'r' in the file list
KeyRescan ==
    /\ pc = "loop"
    /\ state = "STATE_FILES"
    /\ LET scanned == scan_project_files(files)
       IN  /\ files' = load_documentation(scanned.files, scanned.file_count, store)
           /\ file_count' = scanned.file_count
    /\ screen' = {"Rescanning project files..."}
    /\ UNCHANGED <<store, unreadable, removed, pc, last_save, edits>>
    /\ UNCHANGED <<state, current_selection, current_file, current_function,
                   search_term, search_results, undocumented_functions>>
    /\ UNCHANGED <<tty_vars, export_vars>>
    /\ UNCHANGED <<probe_vars, view_vars>>

\* 'p' in the file list and 'v' in the function detail: output on the screen only
KeyShow(c) ==
    /\ pc = "loop"
    /\ \/ state = "STATE_FILES" /\ c = "p"
       \/ state = "STATE_FUNCTION_DETAIL" /\ c = "v"
    /\ screen' = {}
    /\ UNCHANGED <<files, file_count, store, unreadable, removed, pc, last_save, edits>>
    /\ UNCHANGED <<state, current_selection, current_file, current_function,
                   search_term, search_results, undocumented_functions>>
    /\ UNCHANGED <<tty_vars, export_vars>>
    /\ UNCHANGED <<probe_vars, view_vars>>

\* 'P' in the file list: the export of the selected file
KeyExport(choice, can_create) ==
    /\ pc = "loop"
    /\ state = "STATE_FILES"
    /\ Cardinality(exports) < MaxExports
    /\ exports' = IF file_count > 0
                  THEN save_printable_documentation(exports, files[current_selection + 1],
                                                    choice, can_create)
                  ELSE exports
    /\ screen' = {}
    /\ UNCHANGED <<files, file_count, store, unreadable, removed, pc, last_save, edits>>
    /\ UNCHANGED <<state, current_selection, current_file, current_function,
                   search_term, search_results, undocumented_functions>>
    /\ UNCHANGED <<tty_vars, x_file>>
    /\ UNCHANGED <<probe_vars, view_vars>>

\* 's' in the file list: the prompt for the term, and the search
KeySearch(typed) ==
    /\ pc = "loop"
    /\ state = "STATE_FILES"
    /\ LET tty == prompt_tty(Tty)
           term == get_string_input(search_term, file_reads(<<typed>>, MAX_NAME_LENGTH))
       IN  /\ termios' = tty.termios
           /\ orig_termios' = tty.orig_termios
           /\ at_exit' = tty.at_exit
           /\ prompt_modes' = tty.prompt_modes
           /\ search_term' = term
           /\ IF Len(term) > 0
              THEN /\ search_results' = perform_search(files, file_count, term)
                   /\ state' = "STATE_SEARCH"
                   /\ current_selection' = 0
              ELSE UNCHANGED <<search_results, state, current_selection>>
    /\ screen' = {}
    /\ UNCHANGED <<files, file_count, store, unreadable, removed, pc, last_save, edits>>
    /\ UNCHANGED <<current_file, current_function, undocumented_functions>>
    /\ UNCHANGED <<start_termios, export_vars>>
    /\ UNCHANGED <<probe_vars, view_vars>>

\* 'u' in the file list
KeyUndocumented ==
    /\ pc = "loop"
    /\ state = "STATE_FILES"
    /\ undocumented_functions' = find_undocumented_functions(files, file_count)
    /\ state' = "STATE_UNDOCUMENTED"
    /\ current_selection' = 0
    /\ screen' = {}
    /\ UNCHANGED <<files, file_count, store, unreadable, removed, pc, last_save, edits>>
    /\ UNCHANGED <<current_file, current_function, search_term, search_results>>
    /\ UNCHANGED <<tty_vars, export_vars>>
    /\ UNCHANGED <<probe_vars, view_vars>>

\* an arrow key in one of the four lists; up: TRUE for ESC [ A, FALSE for ESC [ B
KeyArrow(up) ==
    /\ pc = "loop"
    /\ has_case(state, "ESC")
    /\ current_selection' =
           IF up THEN IF current_selection > 0
                      THEN current_selection - 1 ELSE current_selection
           ELSE IF current_selection < list_length - 1
                THEN current_selection + 1 ELSE current_selection
    /\ screen' = {}
    /\ UNCHANGED <<files, file_count, store, unreadable, removed, pc, last_save, edits>>
    /\ UNCHANGED <<state, current_file, current_function,
                   search_term, search_results, undocumented_functions>>
    /\ UNCHANGED <<tty_vars, export_vars>>
    /\ UNCHANGED <<probe_vars, view_vars>>

\* ENTER in the file list, the function list and the search results
KeyEnter ==
    /\ pc = "loop"
    /\ state \in {"STATE_FILES", "STATE_FUNCTIONS", "STATE_SEARCH"}
    /\ IF list_length > 0
       THEN CASE state = "STATE_FILES" ->
                   /\ current_file' = current_selection
                   /\ state' = "STATE_FUNCTIONS"
                   /\ current_selection' = 0
                   /\ UNCHANGED current_function
              [] state = "STATE_FUNCTIONS" ->
                   /\ current_function' = current_selection
                   /\ state' = "STATE_FUNCTION_DETAIL"
                   /\ UNCHANGED <<current_file, current_selection>>
              [] state = "STATE_SEARCH" ->
                   /\ current_file' = search_results[current_selection + 1] \div 1000
                   /\ current_function' = search_results[current_selection + 1] % 1000
                   /\ state' = "STATE_FUNCTION_DETAIL"
                   /\ UNCHANGED current_selection
       ELSE UNCHANGED <<state, current_selection, current_file, current_function>>
    /\ screen' = {}
    /\ UNCHANGED <<files, file_count, store, unreadable, removed, pc, last_save, edits>>
    /\ UNCHANGED <<search_term, search_results, undocumented_functions>>
    /\ UNCHANGED <<tty_vars, export_vars>>
    /\ UNCHANGED <<probe_vars, view_vars>>

\* 'b' in every state but the file list
KeyBack ==
    /\ pc = "loop"
    /\ has_case(state, "b")
    /\ state' = IF state = "STATE_FUNCTION_DETAIL" THEN "STATE_FUNCTIONS" ELSE "STATE_FILES"
    /\ current_selection' =
           CASE state = "STATE_FUNCTIONS" -> current_file
             [] state = "STATE_FUNCTION_DETAIL" -> current_function
             [] OTHER -> 0
    /\ screen' = {}
    /\ UNCHANGED <<files, file_count, store, unreadable, removed, pc, last_save, edits>>
    /\ UNCHANGED <<current_file, current_function,
                   search_term, search_results, undocumented_functions>>
    /\ UNCHANGED <<tty_vars, export_vars>>
    /\ UNCHANGED <<probe_vars, view_vars>>

\* edit_function_documentation on function j of file i (from 0), the save and
\* the message, with the terminal across the five prompts
EditAt(i, j, typed, can_write) ==
    LET edited == [files EXCEPT ![i + 1].functions[j + 1] =
                       edit_function_documentation(files[i + 1].functions[j + 1], typed)]
        tty == edit_tty(Tty)
    IN  /\ files' = edited
        /\ store' = save_documentation(edited, file_count, store, can_write)
        /\ last_save' = IF can_write THEN "written" ELSE "open failed"
        /\ screen' = {"Documentation saved!"}
        /\ edits' = edits + 1
        /\ termios' = tty.termios
        /\ orig_termios' = tty.orig_termios
        /\ at_exit' = tty.at_exit
        /\ prompt_modes' = tty.prompt_modes

\* 'e' in the function detail
KeyEdit(typed, can_write) ==
    /\ pc = "loop"
    /\ state = "STATE_FUNCTION_DETAIL"
    /\ edits < MaxNavEdits
    /\ EditAt(current_file, current_function, typed, can_write)
    /\ UNCHANGED <<file_count, unreadable, removed, pc>>
    /\ UNCHANGED <<state, current_selection, current_file, current_function,
                   search_term, search_results, undocumented_functions>>
    /\ UNCHANGED <<start_termios, export_vars>>
    /\ UNCHANGED <<probe_vars, view_vars>>

\* ENTER in the undocumented list without the refresh of the list
KeyEnterUndocumented_without_refresh(typed, can_write) ==
    /\ pc = "loop"
    /\ state = "STATE_UNDOCUMENTED"
    /\ IF Len(undocumented_functions) > 0
       THEN /\ edits < MaxNavEdits
            /\ LET at == undocumented_functions[current_selection + 1]
               IN  EditAt(at[1], at[2], typed, can_write)
            /\ UNCHANGED <<undocumented_functions, current_selection>>
       ELSE /\ screen' = {}
            /\ UNCHANGED <<files, store, last_save, edits, undocumented_functions,
                           current_selection, termios, orig_termios, at_exit, prompt_modes>>
    /\ UNCHANGED <<file_count, unreadable, removed, pc>>
    /\ UNCHANGED <<state, current_file, current_function, search_term, search_results>>
    /\ UNCHANGED <<start_termios, export_vars>>
    /\ UNCHANGED <<probe_vars, view_vars>>

\* ENTER in the undocumented list: the edit, the refresh of the list, the clamp
KeyEnterUndocumented(typed, can_write) ==
    /\ pc = "loop"
    /\ state = "STATE_UNDOCUMENTED"
    /\ IF Len(undocumented_functions) > 0
       THEN /\ edits < MaxNavEdits
            /\ LET at == undocumented_functions[current_selection + 1]
               IN  EditAt(at[1], at[2], typed, can_write)
            /\ undocumented_functions' = find_undocumented_functions(files', file_count)
            /\ LET clamped == IF current_selection >= Len(undocumented_functions')
                              THEN Len(undocumented_functions') - 1
                              ELSE current_selection
               IN  current_selection' = IF clamped < 0 THEN 0 ELSE clamped
       ELSE /\ screen' = {}
            /\ UNCHANGED <<files, store, last_save, edits, undocumented_functions,
                           current_selection, termios, orig_termios, at_exit, prompt_modes>>
    /\ UNCHANGED <<file_count, unreadable, removed, pc>>
    /\ UNCHANGED <<state, current_file, current_function, search_term, search_results>>
    /\ UNCHANGED <<start_termios, export_vars>>
    /\ UNCHANGED <<probe_vars, view_vars>>

\* a key that has no case in the current state
KeyIgnored(c) ==
    /\ pc = "loop"
    /\ ~has_case(state, c)
    /\ screen' = {}
    /\ UNCHANGED <<files, file_count, store, unreadable, removed, pc, last_save, edits>>
    /\ UNCHANGED <<state, current_selection, current_file, current_function,
                   search_term, search_results, undocumented_functions>>
    /\ UNCHANGED <<tty_vars, export_vars>>
    /\ UNCHANGED <<probe_vars, view_vars>>

NextNav ==
    \/ NavStartup
    \/ KeyQuit
    \/ KeyRescan
    \/ \E c \in {"p", "v"} : KeyShow(c)
    \/ \E choice \in NavExportChoices : \E can_create \in BOOLEAN :
           KeyExport(choice, can_create)
    \/ \E typed \in SearchTerms : KeySearch(typed)
    \/ KeyUndocumented
    \/ \E up \in BOOLEAN : KeyArrow(up)
    \/ KeyEnter
    \/ KeyBack
    \/ \E typed \in NavTypedInputs : \E can_write \in NavCanWrite : KeyEdit(typed, can_write)
    \/ \E typed \in NavTypedInputs : \E can_write \in NavCanWrite :
           KeyEnterUndocumented(typed, can_write)
    \/ \E c \in Keys : KeyIgnored(c)

SpecNav == InitNav /\ [][NextNav]_vars

(***************************************************************************)
(* The navigation loop in a directory that changes while the program runs: *)
(* between two keys a source file may be deleted, which the next scan      *)
(* (src/dok.c:277-301) finds.                                              *)
(***************************************************************************)
RemovableFiles == {File_a_c, File_b_h}

RemoveFile(entry) ==
    /\ pc = "loop"
    /\ entry \in RemovableFiles \ removed
    /\ removed' = removed \cup {entry}
    /\ UNCHANGED <<files, file_count, store, unreadable, pc, last_save, screen, edits>>
    /\ UNCHANGED <<probe_vars, view_vars, ui_vars>>

NextNavDir ==
    \/ NextNav
    \/ \E entry \in RemovableFiles : RemoveFile(entry)

SpecNavDir == InitNav /\ [][NextNavDir]_vars

---------------------------------------------------------------------------
(***************************************************************************)
(* The exports of one file: save_printable_documentation                   *)
(* (src/dok.c:673-728) on a file of the catalog with any number of         *)
(* functions up to MaxExportFunctions, each documented or not, under every *)
(* choice of the format menu.                                              *)
(***************************************************************************)
ExportFunction(filename, i, is_documented) ==
    [NewFunction(<<"f">>, <<"i","n","t"," ","f","(",")">>, filename, i, <<"i","n","t">>)
        EXCEPT !.is_documented = is_documented]

ExportFiles ==
    { [filename |-> name, full_path |-> name,
       functions |-> [i \in 1..n |-> ExportFunction(name, i, i \in documented)] ] :
        name \in {File_a_c, File_b_h},
        n \in 0..MaxExportFunctions,
        documented \in SUBSET (1..MaxExportFunctions) }

InitExport ==
    /\ files = [i \in 1..NumSlots |-> ZeroFile]
    /\ file_count = 0
    /\ store = NoFile
    /\ unreadable = {}
    /\ removed = {}
    /\ pc = "start"
    /\ last_save = "none"
    /\ screen = {}
    /\ edits = 0
    /\ ProbeIdle
    /\ ViewIdle
    /\ NavStart
    /\ start_termios = CookedTermios
    /\ termios = start_termios
    /\ orig_termios = ZeroTermios
    /\ at_exit = FALSE
    /\ prompt_modes = {}
    /\ exports = {}
    /\ x_file \in ExportFiles

\* the file of the same directory that differs from `file` in its extension
\* only (a.h for a.c), with the same functions declared in it
Sibling(file) ==
    LET name == base_name(file.filename)
                    \o (IF EndsWith(file.filename, <<".","c">>) THEN <<".","h">>
                        ELSE <<".","c">>)
    IN  [filename |-> name, full_path |-> name,
         functions |-> [i \in 1..Len(file.functions) |->
                           [file.functions[i] EXCEPT !.filename = name]]]

\* the two files of the catalog the exports are made of
ExportCatalog == {x_file, Sibling(x_file)}

\* one export of a file of the catalog
Export(file, choice, can_create) ==
    /\ Cardinality(exports) < MaxProbeExports
    /\ exports' = save_printable_documentation(exports, file, choice, can_create)
    /\ UNCHANGED <<prog_vars, probe_vars, view_vars, nav_vars, tty_vars, x_file>>

NextExport ==
    \E file \in ExportCatalog : \E choice \in ExportChoices : \E can_create \in BOOLEAN :
        Export(file, choice, can_create)

SpecExport == InitExport /\ [][NextExport]_vars

---------------------------------------------------------------------------
(***************************************************************************)
(* The vocabulary of the properties.                                       *)
(***************************************************************************)
\* where a block of the store starts: a FUNCTION: line followed by a FILE: line
BlockStarts(lines) ==
    {a \in 1..(Len(lines) - 1) :
        StartsWith(lines[a], KeyFunction) /\ StartsWith(lines[a + 1], KeyFile)}

\* the (function name, file name) a block is keyed by
BlockKey(lines, a) == <<Drop(lines[a], 10), Drop(lines[a + 1], 6)>>

BlockKeys(lines) == {BlockKey(lines, a) : a \in BlockStarts(lines)}

\* the keys of the blocks in the order of the file
BlockKeySeq(lines) ==
    LET starts == BlockStarts(lines)
    IN  [k \in 1..Cardinality(starts) |->
            BlockKey(lines, CHOOSE a \in starts : Cardinality({b \in starts : b < a}) = k - 1)]

\* a DESCRIPTION: line stands in a block keyed by key, before the block's separator
HasDescriptionLine(lines, key) ==
    \E a \in BlockStarts(lines) :
        /\ BlockKey(lines, a) = key
        /\ \E b \in (a + 2)..Len(lines) :
              /\ StartsWith(lines[b], KeyDescription)
              /\ \A m \in (a + 2)..(b - 1) : lines[m] # Separator

\* the documented functions in catalog order
DocumentedFunctions ==
    SelectSeq(CatalogFunctions(files, file_count), LAMBDA f : f.is_documented)

SavedMessage == "Documentation saved!"

\* the lines the line classifier is to reject
RejectedLine(line) ==
    \/ \E p \in { <<"/","/">>, <<"/","*">>, <<"#">>, <<"t","y","p","e","d","e","f">>,
                  <<"s","t","r","u","c","t">>, <<"e","n","u","m">>,
                  <<"u","n","i","o","n">> } : StartsWith(line, p)
    \/ Len(line) > 0 /\ line[1] \in {" ", "\t"}
    \/ ~(\E i \in 1..Len(line) : line[i] = "(")
    \/ ~(\E i \in 1..Len(line) : line[i] = ")")

\* the index of the first '(' of the probe line, 0 when it has none
ProbeParen ==
    IF \E i \in 1..Len(p_line) : p_line[i] = "("
    THEN CHOOSE i \in 1..Len(p_line) : p_line[i] = "(" /\ \A j \in 1..(i - 1) : p_line[j] # "("
    ELSE 0

\* the maximal run of identifier characters of s that ends at index e
IdentifierEndingAt(s, e) ==
    LET first == CHOOSE i \in 1..e :
                     /\ \A j \in i..e : IsIdentChar(s[j])
                     /\ (i = 1 \/ ~IsIdentChar(s[i - 1]))
    IN  SubSeq(s, first, e)

\* the index of the last non-blank character before index e, 0 when there is none
LastNonBlankBefore(s, e) ==
    IF \E i \in 1..(e - 1) : ~isspace(s[i])
    THEN CHOOSE i \in 1..(e - 1) : ~isspace(s[i]) /\ \A j \in (i + 1)..(e - 1) : isspace(s[j])
    ELSE 0

---------------------------------------------------------------------------
(***************************************************************************)
(* C1.  Round trip of the store: when a rescan (scan, then load) follows   *)
(* a successful save, every function that was documented at the save is   *)
(* documented after the load and has the five field values that were       *)
(* saved.                                                                  *)
(***************************************************************************)
C1_RoundTrip ==
    [][ (Rescan /\ last_save = "written" /\ screen = {SavedMessage}) =>
          \A i \in 1..file_count : \A j \in 1..Len(files[i].functions) :
              LET saved == files[i].functions[j]
              IN  saved.is_documented =>
                    /\ i <= file_count' /\ j <= Len(files'[i].functions)
                    /\ files'[i].functions[j].is_documented
                    /\ files'[i].functions[j].description = saved.description
                    /\ files'[i].functions[j].parameters = saved.parameters
                    /\ files'[i].functions[j].return_value = saved.return_value
                    /\ files'[i].functions[j].example = saved.example
                    /\ files'[i].functions[j].notes = saved.notes ]_vars

(***************************************************************************)
(* C2.  The load creates nothing: after the scan and the load of Startup   *)
(* or Rescan, the file count, the file names and every file's function     *)
(* count are those of the scan alone, every function whose (name, file) is *)
(* the key of no block of the store is as the scan made it, and the        *)
(* program goes on unless the scan found nothing.                          *)
(***************************************************************************)
C2_LoadCreatesNothing ==
    [][ (Startup \/ Rescan) =>
          LET scanned == scan_project_files(files)
          IN  /\ file_count' = scanned.file_count
              /\ \A i \in 1..NumSlots :
                    /\ files'[i].filename = scanned.files[i].filename
                    /\ Len(files'[i].functions) = Len(scanned.files[i].functions)
              /\ \A i \in 1..scanned.file_count : \A j \in 1..Len(scanned.files[i].functions) :
                    <<scanned.files[i].functions[j].name, scanned.files[i].filename>>
                        \notin BlockKeys(store.lines)
                    => files'[i].functions[j] = scanned.files[i].functions[j]
              /\ (pc' = "exited" => scanned.file_count = 0) ]_vars

\* a load has run on a store with a block whose key is no function of the catalog
C2_Witness ==
    /\ pc = "loop"
    /\ edits = 0
    /\ \E key \in BlockKeys(store.lines) :
          \A i \in 1..file_count : \A j \in 1..Len(files[i].functions) :
              <<files[i].functions[j].name, files[i].filename>> # key

(***************************************************************************)
(* C3.  After a scan and a load, a function is documented if and only if   *)
(* the store holds a DESCRIPTION: line in a block keyed by the function's  *)
(* (name, file), the blocks written for an empty description included.     *)
(***************************************************************************)
C3_DocumentedIffDescriptionLine ==
    [][ (Startup \/ Rescan) =>
          \A i \in 1..file_count' : \A j \in 1..Len(files'[i].functions) :
              files'[i].functions[j].is_documented
                  <=> HasDescriptionLine(store.lines,
                          <<files'[i].functions[j].name, files'[i].filename>>) ]_vars

(***************************************************************************)
(* C4.  An edit of a function with an empty description, at which the      *)
(* description prompt is left empty, leaves is_documented as it was.       *)
(***************************************************************************)
C4_FlagOnlyByDescription ==
    [][ \A i \in 1..file_count : \A j \in 1..Len(files[i].functions) :
          \A typed \in TypedInputs : \A can_write \in BOOLEAN :
              ( /\ Edit(i, j, typed, can_write)
                /\ files[i].functions[j].description = <<>>
                /\ typed[1] = <<>> )
              => files'[i].functions[j].is_documented = files[i].functions[j].is_documented
      ]_vars

(***************************************************************************)
(* C5.  After a successful save the store is the header followed by one    *)
(* block of ten lines for each documented function, in catalog order, and  *)
(* nothing else: no block of an undocumented function, nothing of what the *)
(* file held before.                                                       *)
(***************************************************************************)
C5_SaveWritesDocumentedInOrder ==
    (last_save = "written" /\ screen = {SavedMessage}) =>
        /\ store.exists
        /\ Len(store.lines) = 3 + 10 * Len(DocumentedFunctions)
        /\ SubSeq(store.lines, 1, 3) = StoreHeader
        /\ \A k \in 1..Len(DocumentedFunctions) : store.lines[3 + 10 * k] = Separator
        /\ BlockKeySeq(store.lines)
             = [k \in 1..Len(DocumentedFunctions) |->
                   <<DocumentedFunctions[k].name, DocumentedFunctions[k].filename>>]

\* a save has written two blocks and left out an undocumented function
C5_Witness ==
    /\ last_save = "written"
    /\ screen = {SavedMessage}
    /\ Len(DocumentedFunctions) = 2
    /\ Len(CatalogFunctions(files, file_count)) = 3
    /\ ~CatalogFunctions(files, file_count)[2].is_documented

(***************************************************************************)
(* C6.  When the store cannot be opened for writing during an edit, the    *)
(* edit does not tell the user that the documentation was saved.           *)
(***************************************************************************)
C6_WriteFailureNotReportedAsSaved ==
    last_save = "open failed" => SavedMessage \notin screen

(***************************************************************************)
(* C7.  A line that begins with //, a comment opener, #, typedef, struct,  *)
(* enum or union, or with a space or a tab, or that has no '(' or no ')',  *)
(* is rejected by the classifier, before and after trim_whitespace, and    *)
(* the scanner adds no function for it.                                    *)
(***************************************************************************)
C7_RejectedLineGivesNoFunction ==
    RejectedLine(p_line) =>
        /\ (p_pc = "classified" => ~p_out.raw /\ ~p_out.trimmed)
        /\ (p_pc = "scanned" => p_out.functions = <<>>)

(***************************************************************************)
(* C8.  In a .c file a line that starts at column 0 and ends in ';' is     *)
(* rejected.  As first stated: and the same line without that ';' is       *)
(* always accepted.  As amended: and the same line without that ';' is     *)
(* accepted exactly when it has a '(' and a ')', begins with none of the   *)
(* rejected prefixes, and its last non-blank character is not ';'.         *)
(***************************************************************************)
ProbeCutCase ==
    /\ p_pc = "cut"
    /\ p_file = File_a_c
    /\ p_line[1] \notin {" ", "\t"}

C8_CutLineAlwaysAccepted ==
    ProbeCutCase => ~p_out.whole /\ p_out.cut

C8_CutLineAcceptedWhenFunctionLike ==
    ProbeCutCase =>
        LET cut == SubSeq(p_line, 1, Len(p_line) - 1)
            last == LastNonBlankBefore(cut, Len(cut) + 1)
        IN  /\ ~p_out.whole
            /\ p_out.cut <=> (~RejectedLine(cut) /\ last > 0 /\ cut[last] # ";")

\* a .c line ending in ';' was rejected, and accepted with the ';' removed
C8_Witness ==
    ProbeCutCase /\ ~p_out.whole /\ p_out.cut

(***************************************************************************)
(* C9.  When identifier characters stand directly before the first '(',    *)
(* extract_function_name succeeds and gives the whole identifier, the      *)
(* maximal run of identifier characters that ends before that '('.         *)
(***************************************************************************)
C9_WholeIdentifier ==
    (p_pc = "extracted" /\ ProbeParen > 1 /\ IsIdentChar(p_line[ProbeParen - 1])) =>
        /\ p_out.found.ok
        /\ p_out.found.name = IdentifierEndingAt(p_line, ProbeParen - 1)

(***************************************************************************)
(* C10.  When blanks stand directly before the first '(', they are         *)
(* skipped: the extraction succeeds and gives the identifier that ends     *)
(* before the blanks ("int foo (void)" gives foo), and it fails only when  *)
(* no identifier character stands there.                                   *)
(***************************************************************************)
C10_BlanksSkipped ==
    (p_pc = "extracted" /\ ProbeParen >= 2 /\ isspace(p_line[ProbeParen - 1])) =>
        LET end == LastNonBlankBefore(p_line, ProbeParen)
        IN  IF end > 0 /\ IsIdentChar(p_line[end])
            THEN p_out.found.ok /\ p_out.found.name = IdentifierEndingAt(p_line, end)
            ELSE ~p_out.found.ok

\* str without its leading and trailing blanks
TrimBoth(str) ==
    IF \A i \in 1..Len(str) : isspace(str[i]) THEN <<>>
    ELSE LET first == CHOOSE i \in 1..Len(str) :
                          ~isspace(str[i]) /\ \A j \in 1..(i - 1) : isspace(str[j])
             last == CHOOSE i \in 1..Len(str) :
                         ~isspace(str[i]) /\ \A j \in (i + 1)..Len(str) : isspace(str[j])
         IN  SubSeq(str, first, last)

\* a name stands directly before the first '(' of the probe line
ProbeHasName == ProbeParen > 1 /\ IsIdentChar(p_line[ProbeParen - 1])

\* the text of the probe line before the name that ends at the first '('
ProbeBeforeName ==
    SubSeq(p_line, 1, ProbeParen - 1 - Len(IdentifierEndingAt(p_line, ProbeParen - 1)))

(***************************************************************************)
(* C11.  When text other than blanks precedes the function name, the      *)
(* return type is that text with the blanks around it trimmed; a '*'       *)
(* written directly before the name stays in it ("char *get_name(...)"     *)
(* gives "char *", "int add(...)" gives "int").                            *)
(***************************************************************************)
C11_ReturnTypeIsTextBeforeName ==
    (p_pc = "extracted" /\ ProbeHasName /\ TrimBoth(ProbeBeforeName) # <<>>) =>
        p_out.return_type = TrimBoth(ProbeBeforeName)

(***************************************************************************)
(* C12.  When the line has a '(' and nothing but blanks, or nothing at     *)
(* all, stands before the function name, the return type is "int"; when    *)
(* the line has no '(' the return type is "void".                          *)
(***************************************************************************)
C12_ReturnTypeDefaults ==
    p_pc = "extracted" =>
        /\ (ProbeHasName /\ TrimBoth(ProbeBeforeName) = <<>>)
               => p_out.return_type = <<"i","n","t">>
        /\ ProbeParen = 0 => p_out.return_type = <<"v","o","i","d">>

\* the (file, function name, line number) triples of a catalog
CatalogTriples(fs, count) ==
    UNION { { <<fs[i].filename, fs[i].functions[j].name, fs[i].functions[j].line_number>> :
                j \in 1..Len(fs[i].functions) } : i \in 1..count }

\* the entries of the directory the scanner takes for C files
SourceEntries == {Dir[k] : k \in {n \in 1..Len(Dir) : is_c_file(Dir[n])}}

(***************************************************************************)
(* C13.  A rescan of the unchanged directory, with the readability of its  *)
(* files unchanged, gives a catalog with the same (file, function name,    *)
(* line number) triples as the catalog had before it.                      *)
(***************************************************************************)
C13_ScanRepeatable ==
    [][ Rescan => CatalogTriples(files', file_count') = CatalogTriples(files, file_count)
      ]_vars

(***************************************************************************)
(* C14.  After every scan no catalog file is an entry that could not be    *)
(* opened, and the scan went on: every entry that can be opened and holds  *)
(* a function is a catalog file.                                           *)
(***************************************************************************)
C14_UnreadableEntrySkipped ==
    pc # "start" =>
        /\ \A i \in 1..file_count : files[i].filename \notin unreadable
        /\ \A entry \in SourceEntries \ unreadable :
              parse_c_file(entry, ZeroFile, [ok |-> TRUE, lines |-> SourceLines(entry)]).functions
                  # <<>>
              => \E i \in 1..file_count : files[i].filename = entry

(***************************************************************************)
(* C15.  In every state of the catalog, every function stored under a      *)
(* catalog file has that file's name as its owning file.                   *)
(***************************************************************************)
C15_FunctionUnderOwningFile ==
    \A i \in 1..file_count : \A j \in 1..Len(files[i].functions) :
        files[i].functions[j].filename = files[i].filename

\* the brace balance after the first q characters of line k, counted from the
\* beginning of line first
BalanceAt(lines, first, k, q) ==
    LET before == [m \in first..(k - 1) |->
                      Cardinality({c \in 1..Len(lines[m]) : lines[m][c] = "{"})
                        - Cardinality({c \in 1..Len(lines[m]) : lines[m][c] = "}"})]
        RECURSIVE Sum(_)
        Sum(m) == IF m < first THEN 0 ELSE before[m] + Sum(m - 1)
    IN  Sum(k - 1)
          + Cardinality({c \in 1..q : lines[k][c] = "{"})
          - Cardinality({c \in 1..q : lines[k][c] = "}"})

\* in line k the balance counted from line first is <= 0 after it was positive
ClosesAt(lines, first, k) ==
    \E q \in 1..Len(lines[k]) :
        /\ BalanceAt(lines, first, k, q) <= 0
        /\ \/ \E r \in 1..(q - 1) : BalanceAt(lines, first, k, r) > 0
           \/ \E m \in first..(k - 1) : \E r \in 1..Len(lines[m]) :
                  BalanceAt(lines, first, m, r) > 0

\* the last line of the function that starts at line first: the first line that
\* closes it, or the last line of the file
LastLineOf(lines, first) ==
    IF \E k \in first..Len(lines) : ClosesAt(lines, first, k)
    THEN CHOOSE k \in first..Len(lines) :
             ClosesAt(lines, first, k) /\ \A m \in first..(k - 1) : ~ClosesAt(lines, first, m)
    ELSE Len(lines)

\* lines lo .. hi as the extractor prints them: numbered, with their newline
NumberedLines(lines, lo, hi) ==
    [k \in 1..(hi - lo + 1) |->
        [number |-> lo + k - 1, text |-> Append(lines[lo + k - 1], "\n")]]

\* the source of a function was shown from a file that could be opened
ViewShown == v_pc = "shown" /\ v_out.shown.opened

\* the function shown starts on a declaration of a header
ViewHeaderDeclaration ==
    /\ EndsWith(v_file, <<".","h">>)
    /\ EndsWith(v_lines[v_out.func.line_number], <<";">>)

(***************************************************************************)
(* C16.  For a function whose starting line is not a header declaration,   *)
(* the source shown is the starting line and the lines after it up to and  *)
(* including the first line at which the brace balance is back at <= 0     *)
(* after it was positive: no line after that one, and no stop before the   *)
(* balance was positive.                                                   *)
(***************************************************************************)
C16_SourceUpToClosingLine ==
    (ViewShown /\ ~ViewHeaderDeclaration) =>
        v_out.shown.out
            = NumberedLines(v_lines, v_out.func.line_number,
                            LastLineOf(v_lines, v_out.func.line_number))

(***************************************************************************)
(* C17.  For a function of a header whose starting line ends in ';' the    *)
(* source shown is that one line and nothing else; and a header that holds *)
(* only "int h(int x);" scans to exactly one function, not documented,     *)
(* whose source is that line.                                              *)
(***************************************************************************)
C17_HeaderDeclarationIsOneLine ==
    /\ (ViewShown /\ ViewHeaderDeclaration) =>
           v_out.shown.out
               = NumberedLines(v_lines, v_out.func.line_number, v_out.func.line_number)
    /\ ( /\ v_pc = "scanned"
         /\ EndsWith(v_file, <<".","h">>)
         /\ v_lines = << <<"i","n","t"," ","h","(","i","n","t"," ","x",")",";">> >> ) =>
           /\ Len(v_out.functions) = 1
           /\ v_out.functions[1].name = <<"h">>
           /\ v_out.functions[1].line_number = 1
           /\ ~v_out.functions[1].is_documented

\* the source of a header declaration that is followed by more lines was shown
C17_Witness ==
    /\ ViewShown
    /\ ViewHeaderDeclaration
    /\ v_out.func.line_number < Len(v_lines)
    /\ Len(v_out.shown.out) = 1

\* the terminal in raw mode when its settings before the program were `t`
RawOf(t) == [t EXCEPT !.ECHO = FALSE, !.ICANON = FALSE]

(***************************************************************************)
(* C18.  The navigation loop starts in STATE_FILES; the state is always    *)
(* one of the five states; the loop is left only by 'q' in STATE_FILES;    *)
(* and in every other state 'q' is a key without a case, which ends        *)
(* nothing and leaves the state as it is.                                  *)
(***************************************************************************)
C18_OnlyQuitInFilesEnds ==
    /\ [](/\ state \in NavStates
          /\ pc = "start" => state = "STATE_FILES"
          /\ (pc = "loop" /\ state # "STATE_FILES") =>
                 /\ ~ENABLED KeyQuit
                 /\ ENABLED KeyIgnored("q"))
    /\ [][(pc = "loop" /\ pc' # "loop") => (state = "STATE_FILES" /\ KeyQuit)]_vars
    /\ [][(pc = "loop" /\ KeyIgnored("q")) => (state' = state /\ pc' = "loop")]_vars

\* the process was ended by 'q' after the loop had been in the function list
\* and the function detail and had come back to the file list
C18_Witness ==
    /\ pc = "exited"
    /\ file_count > 0
    /\ state = "STATE_FILES"
    /\ current_function > 0

(***************************************************************************)
(* C19.  While handle_input waits for a key the terminal is in raw mode;   *)
(* every get_string_input prompt ran with the settings the terminal had    *)
(* before the program, and the loop is back in raw mode after it; and at   *)
(* the exit of the process the terminal has the settings it had before the *)
(* program, after any number of prompts.                                   *)
(***************************************************************************)
C19_TerminalModeScoped ==
    /\ pc = "loop" => termios = RawOf(start_termios)
    /\ prompt_modes \subseteq {start_termios}
    /\ pc = "exited" => termios = start_termios

\* the process has exited after prompts, from a terminal that was echoing
C19_Witness ==
    /\ pc = "exited"
    /\ prompt_modes # {}
    /\ start_termios = CookedTermios
    /\ termios = CookedTermios

(***************************************************************************)
(* C20.  Every export file written, in each of the four formats, holds the *)
(* coverage statistic of the exported file: documented functions / total   *)
(* functions x 100 (to the tenth of a percent that is printed), and 0 for  *)
(* a file without functions.                                               *)
(***************************************************************************)
C20_EveryFormatWritesCoverage ==
    \A e \in exports :
        LET total == Len(x_file.functions)
            documented ==
                Cardinality({i \in 1..total : x_file.functions[i].is_documented})
        IN  /\ Len(e.content.statistics) = 1
            /\ total = 0 => e.content.statistics[1].coverage = 0
            /\ total > 0 =>
                   LET tenths == e.content.statistics[1].coverage
                       off == tenths * total - 1000 * documented
                   IN  2 * off <= total /\ 2 * off >= -total

\* the reads of fgets over the store, and the state of the loop of
\* load_documentation after the first k of them, on the catalog a scan gives
StoreReads == file_reads(store.lines, MAX_LINE_LENGTH)

LoadStateAfter(k) ==
    LET scanned == scan_project_files(files)
    IN  load_reads([files |-> scanned.files, current_func_name |-> <<>>,
                    current_filename |-> <<>>],
                   scanned.file_count, StoreReads, 1, k)

(***************************************************************************)
(* C21.  While load_documentation reads the store, after every line that   *)
(* is the separator "---" the two current keys are both empty, whether the *)
(* keys of the block that ends there named a function of the catalog or    *)
(* not.                                                                    *)
(***************************************************************************)
C21_KeysClearedAtSeparator ==
    store.exists =>
        \A k \in 1..Len(StoreReads) :
            trim_whitespace(StoreReads[k]) = Separator =>
                /\ LoadStateAfter(k).current_func_name = <<>>
                /\ LoadStateAfter(k).current_filename = <<>>

\* the block save_documentation writes for func stands in the lines
BlockIn(lines, func) ==
    \E a \in 1..(Len(lines) - Len(StoreBlock(func)) + 1) :
        SubSeq(lines, a, a + Len(StoreBlock(func)) - 1) = StoreBlock(func)

\* the five fields the prompts of an edit fill
EnteredFields(func) ==
    <<func.description, func.parameters, func.return_value, func.example, func.notes>>

\* the step is an edit of a function other than function j of file i
EditOfOther(i, j) ==
    \E i2 \in 1..file_count : \E j2 \in 1..Len(files[i2].functions) :
        /\ <<i2, j2>> # <<i, j>>
        /\ \E typed \in TypedInputs : \E can_write \in BOOLEAN :
               Edit(i2, j2, typed, can_write)

(***************************************************************************)
(* C22.  Once the store holds the block of a function F with the values    *)
(* the catalog holds for it, as it does after an edit of F that was saved, *)
(* every rescan and every edit of another function leaves F's block in the *)
(* store and F's five fields in the catalog as they were; so no sequence   *)
(* of such steps loses the edit.                                           *)
(***************************************************************************)
C22_SavedEditsKept ==
    [][ \A i \in 1..file_count : \A j \in 1..Len(files[i].functions) :
          LET func == files[i].functions[j]
          IN  ( /\ pc = "loop"
                /\ edits > 0
                /\ BlockIn(store.lines, func)
                /\ (Rescan \/ EditOfOther(i, j)) ) =>
                  /\ i <= file_count'
                  /\ j <= Len(files'[i].functions)
                  /\ EnteredFields(files'[i].functions[j]) = EnteredFields(func)
                  /\ <<func.name, func.filename>> \in BlockKeys(store'.lines) ]_vars

(***************************************************************************)
(* C23.  Whenever the loop waits for a key in STATE_UNDOCUMENTED the       *)
(* undocumented list is what find_undocumented_functions gives on the      *)
(* catalog as it is now, and whenever it waits in STATE_SEARCH the search  *)
(* results are what perform_search gives on the catalog as it is now for   *)
(* the current search term.                                                *)
(***************************************************************************)
C23_DerivedViewsFresh ==
    /\ (pc = "loop" /\ state = "STATE_UNDOCUMENTED") =>
           undocumented_functions = find_undocumented_functions(files, file_count)
    /\ (pc = "loop" /\ state = "STATE_SEARCH") =>
           search_results = perform_search(files, file_count, search_term)

\* the loop waits in the undocumented list right after an edit made there has
\* taken a function off the list, with the results of an earlier search kept
C23_Witness ==
    /\ pc = "loop"
    /\ state = "STATE_UNDOCUMENTED"
    /\ screen = {SavedMessage}
    /\ Len(undocumented_functions) < Len(CatalogFunctions(files, file_count)) 
    /\ search_results # <<>>

(***************************************************************************)
(* C25.  Whenever the loop waits for a key, current_selection is an index  *)
(* of the list the state shows (0 <= current_selection < its length), or 0 *)
(* when that list is empty; and the file of the function list and the      *)
(* function of the detail view are a file and a function of the catalog.   *)
(***************************************************************************)
C25_SelectionInRange ==
    pc = "loop" =>
        /\ state # "STATE_FUNCTION_DETAIL" =>
               IF list_length = 0 THEN current_selection = 0
               ELSE current_selection >= 0 /\ current_selection < list_length
        /\ state \in {"STATE_FUNCTIONS", "STATE_FUNCTION_DETAIL"} =>
               current_file < file_count
        /\ state = "STATE_FUNCTION_DETAIL" =>
               current_function < Len(files[current_file + 1].functions)

(***************************************************************************)
(* C24.  Every function the scanner records in a file has, as its line     *)
(* number, the index (from 1) of a line of the file as it is on disk, and  *)
(* its signature stands on that line; also when a line before it is longer *)
(* than the read buffer of the scanner.                                    *)
(***************************************************************************)
C24_LineNumberIsPhysicalLine ==
    p_out.op = "scan below" =>
        \A k \in 1..Len(p_out.functions) :
            LET func == p_out.functions[k]
            IN  /\ func.line_number \in 1..Len(LinesWithRun)
                /\ strstr(LinesWithRun[func.line_number], func.signature)

(***************************************************************************)
(* C27.  No export replaces the export of another source file: every       *)
(* export file that exists before a step exists after it, under its path,  *)
(* as the documentation of the same source file; so two different files    *)
(* exported in the same format have different paths.                       *)
(***************************************************************************)
C27_ExportsNotReplaced ==
    [][ \A e \in exports :
          \E kept \in exports' :
              kept.path = e.path /\ kept.content.source = e.content.source ]_vars

(***************************************************************************)
(* C26.  After an edit in which a text was typed at one of the five        *)
(* prompts and ENTER alone at the others, the field of that prompt holds   *)
(* the text, cut to the capacity of the field, or its old value when the   *)
(* text is empty, and each of the four other fields holds its old value:   *)
(* nothing of the text, the part beyond the capacity included, is in them. *)
(***************************************************************************)
C26_PromptSetsOwnFieldOnly ==
    p_out.op = "edit" =>
        \A n \in 1..5 :
            EnteredFields(p_out.func)[n]
                = IF n = p_out.prompt /\ p_line # <<>>
                  THEN Take(p_line, MAX_CONTENT_LENGTH - 1)
                  ELSE EnteredFields(FuncWithOldText)[n]

=============================================================================
